---- MODULE Spec2Model ----
(***************************************************************************)
(* Model of minesweeper.py: the Minesweeper board, the Sentence class and  *)
(* the MinesweeperAI knowledge base with its inference and move selection. *)
(*                                                                         *)
(* A Python set has no iteration order the program controls, so every      *)
(* "for x in <set>" whose body has side effects is modelled as a choice    *)
(* over all orders; an operation therefore yields a SET of outcomes.       *)
(***************************************************************************)
EXTENDS Integers, Sequences, FiniteSets, TLC

VARIABLES
    height, width,   \* the dimensions both constructors are given
    board,           \* Minesweeper.mines: where the mines really are
    moves_made, mines, safes, knowledge,   \* the fields of MinesweeperAI
    calls,           \* the add_knowledge calls made so far, as <<cell, count>>
    pre,             \* the AI as it was when the latest call began
    step3,           \* the AI as steps 1-3 of the latest add_knowledge left it
    ret              \* what the latest call returned

vars == <<height, width, board, moves_made, mines, safes, knowledge, calls, pre, step3, ret>>

\* ---- bounds of the exploration ----

\* the (height, width) pairs the two constructors are called with; the largest
\* is the 3x3 board of the scenario in the specification
Boards == {<<h, w>> : h \in 1..3, w \in 1..3}

\* the mines argument of Minesweeper(height, width, mines) is at most MaxMines
MaxMines == 2

\* add_knowledge is called at most MaxCalls times in a run of Spec ...
MaxCalls == 3

\* ... at most MaxDeepCalls times in a run of SpecDeep ...
MaxDeepCalls == 4

\* ... and at most MaxMoveCalls times in a run of SpecMoves or SpecMarks
MaxMoveCalls == 1
\* add_knowledge calls with counts that need not be true
MaxAnyCalls == 2

\* ---- the board (class Minesweeper) ----

AllCells(h, w) == {<<i, j>> : i \in 0..(h - 1), j \in 0..(w - 1)}

\* the double loop over range(cell[0]-1, cell[0]+2) x range(cell[1]-1, cell[1]+2),
\* skipping the cell itself and everything out of bounds
Neighbours(cell, h, w) ==
    {n \in AllCells(h, w) :
        /\ n # cell
        /\ n[1] \in (cell[1] - 1)..(cell[1] + 1)
        /\ n[2] \in (cell[2] - 1)..(cell[2] + 1)}

is_mine(cell) == cell \in board

nearby_mines(cell) == Cardinality({n \in Neighbours(cell, height, width) : n \in board})

\* ---- class Sentence ----

Sentence(cells, count) == [cells |-> cells, count |-> count]

\* mutant: "len(self.cells) == self.count" weakened to >=
known_mines_at_least(s) == IF Cardinality(s.cells) >= s.count THEN s.cells ELSE {}

known_mines(s) == IF Cardinality(s.cells) = s.count THEN s.cells ELSE {}

known_safes(s) == IF s.count = 0 THEN s.cells ELSE {}

\* mutant: the cell is removed but the count is not decremented
Sentence_mark_mine_keeps_count(s, cell) ==
    IF cell \in s.cells /\ Cardinality(s.cells) > 1
    THEN [cells |-> s.cells \ {cell}, count |-> s.count]
    ELSE s

Sentence_mark_mine(s, cell) ==
    IF cell \in s.cells /\ Cardinality(s.cells) > 1
    THEN [cells |-> s.cells \ {cell}, count |-> s.count - 1]
    ELSE s

\* mutant: the count is decremented as in mark_mine
Sentence_mark_safe_decrements(s, cell) ==
    IF cell \in s.cells /\ Cardinality(s.cells) > 1
    THEN [cells |-> s.cells \ {cell}, count |-> s.count - 1]
    ELSE s

Sentence_mark_safe(s, cell) ==
    IF cell \in s.cells /\ Cardinality(s.cells) > 1
    THEN [cells |-> s.cells \ {cell}, count |-> s.count]
    ELSE s

\* ---- class MinesweeperAI ----

\* the AI object as a value
AI == [moves_made |-> moves_made, mines |-> mines, safes |-> safes,
       knowledge |-> knowledge]

NewAI == [moves_made |-> {}, mines |-> {}, safes |-> {}, knowledge |-> <<>>]

\* mutant: every Sentence is updated, whether or not it holds the cell
mark_mine_every_sentence(ai, cell) ==
    [ai EXCEPT !.mines = @ \cup {cell},
               !.knowledge = [k \in DOMAIN @ |->
                                 Sentence(@[k].cells \ {cell}, @[k].count - 1)]]

mark_mine(ai, cell) ==
    [ai EXCEPT !.mines = @ \cup {cell},
               !.knowledge = [k \in DOMAIN @ |-> Sentence_mark_mine(@[k], cell)]]

mark_safe(ai, cell) ==
    [ai EXCEPT !.safes = @ \cup {cell},
               !.knowledge = [k \in DOMAIN @ |-> Sentence_mark_safe(@[k], cell)]]

\* mutant: the test "safe_cell not in self.safes" is inverted
MarkOne_inverted_test(ai, c, kind) ==
    CASE kind = "mine" -> mark_mine(ai, c)
      [] kind = "safe" -> mark_safe(ai, c)
      [] kind = "new_safe" -> IF c \in ai.safes THEN mark_safe(ai, c) ELSE ai

\* one iteration of "for c in <set>: mark(c)"; kind selects the loop body
MarkOne(ai, c, kind) ==
    CASE kind = "mine" -> mark_mine(ai, c)
      [] kind = "safe" -> mark_safe(ai, c)
      [] kind = "new_safe" -> IF c \notin ai.safes THEN mark_safe(ai, c) ELSE ai

\* all outcomes of the loops "for c in <set>: mark(c)", over every iteration
\* order; todo is a set of [ai, rem] pairs, rem the cells still to visit
RECURSIVE MarkEach(_, _)
MarkEach(todo, kind) ==
    IF \A p \in todo : p.rem = {}
    THEN {p.ai : p \in todo}
    ELSE MarkEach(UNION {{[ai |-> MarkOne(p.ai, c, kind), rem |-> p.rem \ {c}]
                             : c \in p.rem} : p \in todo}, kind)

\* mutant: a neighbour that is a known mine is left out without lowering the count
NewSentence_ignores_mines(ai, cell, count, h, w) ==
    Sentence({n \in Neighbours(cell, h, w) : n \notin ai.safes /\ n \notin ai.mines},
             count)

\* mutant: neighbours already known safe are not skipped
NewSentence_keeps_safes(ai, cell, count, h, w) ==
    LET nbrs == Neighbours(cell, h, w)
    IN  Sentence({n \in nbrs : n \notin ai.mines},
                 count - Cardinality({n \in nbrs : n \in ai.mines}))

\* step 3 of add_knowledge: the sentence built from the neighbours
NewSentence(ai, cell, count, h, w) ==
    LET nbrs == Neighbours(cell, h, w)
    IN  Sentence({n \in nbrs : n \notin ai.safes /\ n \notin ai.mines},
                 count - Cardinality({n \in nbrs : n \notin ai.safes /\ n \in ai.mines}))

\* mutant: the new sentence is appended even when it has no cells
AddSentence_appends_empty(ai, cell, count, h, w) ==
    LET a1 == [ai EXCEPT !.moves_made = @ \cup {cell}]
        a2 == mark_safe(a1, cell)
    IN  [a2 EXCEPT !.knowledge = Append(@, NewSentence(a2, cell, count, h, w))]

\* steps 1-3 of add_knowledge
AddSentence(ai, cell, count, h, w) ==
    LET a1 == [ai EXCEPT !.moves_made = @ \cup {cell}]
        a2 == mark_safe(a1, cell)
        s  == NewSentence(a2, cell, count, h, w)
    IN  IF Cardinality(s.cells) > 0
        THEN [a2 EXCEPT !.knowledge = Append(@, s)]
        ELSE a2

\* step 4: body of "for sentence in self.knowledge" for the sentence at index i
MarkStep(ai, i) ==
    LET sentence == ai.knowledge[i]
        new_safes == known_safes(sentence)
    IN  IF Cardinality(new_safes) = 0
        THEN IF known_mines(sentence) # {}
             THEN MarkEach({[ai |-> ai, rem |-> known_mines(sentence)]}, "mine")
             ELSE {ai}
        ELSE MarkEach({[ai |-> ai, rem |-> new_safes]}, "new_safe")

RECURSIVE MarkLoop(_, _, _)
MarkLoop(ais, i, n) ==
    IF i > n THEN ais
    ELSE MarkLoop(UNION {MarkStep(ai, i) : ai \in ais}, i + 1, n)

\* step 5: body of the nested loops for sentence1 at index i, sentence2 at j
SubsetStep(ai, i, j) ==
    LET sentence1 == ai.knowledge[i]
        sentence2 == ai.knowledge[j]
    IN  IF sentence2 = sentence1 THEN {ai}
        ELSE IF sentence1.cells \subseteq sentence2.cells
        THEN LET a1 == [ai EXCEPT !.knowledge[j] =
                            Sentence(sentence2.cells \ sentence1.cells,
                                     sentence2.count - sentence1.count)]
                 afterSafes ==
                    IF known_safes(a1.knowledge[j]) # {}
                    THEN MarkEach({[ai |-> a1, rem |-> known_safes(a1.knowledge[j])]}, "safe")
                    ELSE {a1}
             IN  UNION {IF known_mines(a2.knowledge[j]) # {}
                        THEN MarkEach({[ai |-> a2, rem |-> known_mines(a2.knowledge[j])]}, "mine")
                        ELSE {a2} : a2 \in afterSafes}
        ELSE {ai}

\* k counts the (i, j) pairs in the order the nested loops visit them
RECURSIVE SubsetLoop(_, _, _)
SubsetLoop(ais, k, n) ==
    IF k >= n * n THEN ais
    ELSE SubsetLoop(UNION {SubsetStep(ai, (k \div n) + 1, (k % n) + 1) : ai \in ais},
                    k + 1, n)

\* all outcomes of add_knowledge(cell, count)
add_knowledge(ai, cell, count, h, w) ==
    LET a3 == AddSentence(ai, cell, count, h, w)
        n  == Len(a3.knowledge)
    IN  SubsetLoop(MarkLoop({a3}, 1, n), 0, n)

possible_mine(ai) ==
    UNION {{c \in ai.knowledge[k].cells : c \notin ai.mines}
              : k \in {x \in DOMAIN ai.knowledge : ai.knowledge[x].count > 0}}

\* a returned value: val holds the returned cell (empty for None), raised is
\* TRUE when the call ended in an exception
Return(op, val, raised) == [op |-> op, val |-> val, raised |-> raised]

\* mutant: the test "cell not in self.moves_made" is missing
make_safe_move_any_safe(ai) ==
    IF Cardinality(ai.safes) > 0
    THEN {Return("make_safe_move", {cell}, FALSE) : cell \in ai.safes}
    ELSE {Return("make_safe_move", {}, FALSE)}

make_safe_move(ai) ==
    IF Cardinality(ai.safes) > 0
    THEN IF \E cell \in ai.safes : cell \notin ai.moves_made
         THEN {Return("make_safe_move", {cell}, FALSE)
                  : cell \in {c \in ai.safes : c \notin ai.moves_made}}
         ELSE {Return("make_safe_move", {}, FALSE)}
    ELSE {Return("make_safe_move", {}, FALSE)}

\* the draws of make_random_move: with k draws left, a draw outside
\* moves_and_mines.union(possible_mines) is returned, any other draw goes on
RECURSIVE RandomDraws(_, _, _, _)
RandomDraws(k, all, excluded, possible_mines) ==
    IF k = 0
    THEN IF Cardinality(possible_mines) > 0
         THEN {Return("make_random_move", {}, TRUE)}
         ELSE {Return("make_random_move", {}, FALSE)}
    ELSE {Return("make_random_move", {c}, FALSE) : c \in all \ excluded}
         \cup (IF all \cap excluded # {}
               THEN RandomDraws(k - 1, all, excluded, possible_mines)
               ELSE {})

\* mutant: the draws are tested against moves_and_mines alone
make_random_move_ignores_risk(ai, h, w) ==
    LET moves_and_mines == ai.moves_made \cup ai.mines
        possible_mines == possible_mine(ai)
    IN  RandomDraws(h * w, AllCells(h, w), moves_and_mines, possible_mines)

make_random_move(ai, h, w) ==
    LET moves_and_mines == ai.moves_made \cup ai.mines
        possible_mines == possible_mine(ai)
    IN  RandomDraws(h * w, AllCells(h, w), moves_and_mines \cup possible_mines,
                    possible_mines)

\* ---- the state machine ----

\* Minesweeper(height, width, mines): the mines are placed at random
InitGame ==
    /\ \E b \in Boards : height = b[1] /\ width = b[2]
    /\ board \in {b \in SUBSET AllCells(height, width) : Cardinality(b) <= MaxMines}

\* MinesweeperAI(height, width)
InitAI ==
    /\ moves_made = {}
    /\ mines = {}
    /\ safes = {}
    /\ knowledge = <<>>

Init ==
    /\ InitGame
    /\ InitAI
    /\ calls = <<>>
    /\ pre = NewAI
    /\ step3 = NewAI
    /\ ret = Return("init", {}, FALSE)

\* the board reports the neighbour count of a cell that is not a mine
AddKnowledgeUpTo(max) ==
    /\ Len(calls) < max
    /\ \E cell \in {c \in AllCells(height, width) : ~ is_mine(c)} :
         \E out \in add_knowledge(AI, cell, nearby_mines(cell), height, width) :
            /\ moves_made' = out.moves_made
            /\ mines' = out.mines
            /\ safes' = out.safes
            /\ knowledge' = out.knowledge
            /\ calls' = Append(calls, <<cell, nearby_mines(cell)>>)
            /\ pre' = AI
            /\ step3' = AddSentence(AI, cell, nearby_mines(cell), height, width)
            /\ ret' = Return("add_knowledge", {}, FALSE)
    /\ UNCHANGED <<height, width, board>>

MakeSafeMove ==
    /\ ret' \in make_safe_move(AI)
    /\ pre' = AI
    /\ UNCHANGED <<height, width, board, moves_made, mines, safes, knowledge, calls, step3>>

MakeRandomMove ==
    /\ ret' \in make_random_move(AI, height, width)
    /\ pre' = AI
    /\ UNCHANGED <<height, width, board, moves_made, mines, safes, knowledge, calls, step3>>

AddKnowledge == AddKnowledgeUpTo(MaxCalls)

AddKnowledgeBeforeMove == AddKnowledgeUpTo(MaxMoveCalls)

\* the observations alone
Next == AddKnowledge

Spec == Init /\ [][Next]_vars

\* the observations alone, one call further
AddKnowledgeDeep == AddKnowledgeUpTo(MaxDeepCalls)

NextDeep == AddKnowledgeDeep

SpecDeep == Init /\ [][NextDeep]_vars

\* the observations interleaved with the move selector
NextMoves == AddKnowledgeBeforeMove \/ MakeSafeMove \/ MakeRandomMove

SpecMoves == Init /\ [][NextMoves]_vars

\* the caller flags a cell itself: mark_mine(c) or mark_safe(c) on any cell of
\* the board, once the observations are in, and then the same call again
FirstOrSameCall(op, c) ==
    ret.op \in {"init", "add_knowledge"} \/ ret = Return(op, {c}, FALSE)

MarkMine ==
    /\ \E c \in AllCells(height, width) :
         /\ FirstOrSameCall("mark_mine", c)
         /\ LET out == mark_mine(AI, c)
            IN  /\ moves_made' = out.moves_made
                /\ mines' = out.mines
                /\ safes' = out.safes
                /\ knowledge' = out.knowledge
         /\ ret' = Return("mark_mine", {c}, FALSE)
    /\ pre' = AI
    /\ UNCHANGED <<height, width, board, calls, step3>>

MarkSafe ==
    /\ \E c \in AllCells(height, width) :
         /\ FirstOrSameCall("mark_safe", c)
         /\ LET out == mark_safe(AI, c)
            IN  /\ moves_made' = out.moves_made
                /\ mines' = out.mines
                /\ safes' = out.safes
                /\ knowledge' = out.knowledge
         /\ ret' = Return("mark_safe", {c}, FALSE)
    /\ pre' = AI
    /\ UNCHANGED <<height, width, board, calls, step3>>

AddKnowledgeBeforeMark ==
    /\ ret.op \in {"init", "add_knowledge"}
    /\ AddKnowledgeUpTo(MaxMoveCalls)

NextMarks == AddKnowledgeBeforeMark \/ MarkMine \/ MarkSafe

SpecMarks == Init /\ [][NextMarks]_vars

\* class Sentence on its own: one Sentence over the cells of a board, with any
\* cell set and any count from below zero to above the number of cells, and
\* the four methods called on it in any order
InitSentence ==
    /\ \E b \in Boards : height = b[1] /\ width = b[2]
    /\ board = {}
    /\ moves_made = {}
    /\ mines = {}
    /\ safes = {}
    /\ \E cells \in SUBSET AllCells(height, width) :
         \E count \in (-1) .. (Cardinality(cells) + 1) :
            knowledge = <<Sentence(cells, count)>>
    /\ calls = <<>>
    /\ pre = NewAI
    /\ step3 = NewAI
    /\ ret = Return("init", {}, FALSE)

KnownMines ==
    /\ ret' = Return("known_mines", known_mines(knowledge[1]), FALSE)
    /\ pre' = AI
    /\ UNCHANGED <<height, width, board, moves_made, mines, safes, knowledge, calls, step3>>

KnownSafes ==
    /\ ret' = Return("known_safes", known_safes(knowledge[1]), FALSE)
    /\ pre' = AI
    /\ UNCHANGED <<height, width, board, moves_made, mines, safes, knowledge, calls, step3>>

SentenceMarkMine ==
    /\ \E c \in AllCells(height, width) :
         /\ knowledge' = <<Sentence_mark_mine(knowledge[1], c)>>
         /\ ret' = Return("Sentence.mark_mine", {c}, FALSE)
    /\ pre' = AI
    /\ UNCHANGED <<height, width, board, moves_made, mines, safes, calls, step3>>

SentenceMarkSafe ==
    /\ \E c \in AllCells(height, width) :
         /\ knowledge' = <<Sentence_mark_safe(knowledge[1], c)>>
         /\ ret' = Return("Sentence.mark_safe", {c}, FALSE)
    /\ pre' = AI
    /\ UNCHANGED <<height, width, board, moves_made, mines, safes, calls, step3>>

NextSentence == KnownMines \/ KnownSafes \/ SentenceMarkMine \/ SentenceMarkSafe

SpecSentence == InitSentence /\ [][NextSentence]_vars

\* the caller reports any count from 0 to 8 for any cell of the board, true or
\* not: the AI never sees the board itself
InitAny ==
    /\ \E b \in Boards : height = b[1] /\ width = b[2]
    /\ board = {}
    /\ InitAI
    /\ calls = <<>>
    /\ pre = NewAI
    /\ step3 = NewAI
    /\ ret = Return("init", {}, FALSE)

AddKnowledgeAny ==
    /\ Len(calls) < MaxAnyCalls
    /\ \E cell \in AllCells(height, width) :
         \E count \in 0 .. 8 :
            \E out \in add_knowledge(AI, cell, count, height, width) :
               /\ moves_made' = out.moves_made
               /\ mines' = out.mines
               /\ safes' = out.safes
               /\ knowledge' = out.knowledge
               /\ calls' = Append(calls, <<cell, count>>)
               /\ pre' = AI
               /\ step3' = AddSentence(AI, cell, count, height, width)
               /\ ret' = Return("add_knowledge", {}, FALSE)
    /\ UNCHANGED <<height, width, board>>

NextAny == AddKnowledgeAny

SpecAny == InitAny /\ [][NextAny]_vars

\* ---- what the claims speak of ----

Sentences == {knowledge[k] : k \in DOMAIN knowledge}

\* the latest add_knowledge call
LastCell == calls[Len(calls)][1]

LastCount == calls[Len(calls)][2]

\* add_knowledge has returned and nothing was called since
Returned == calls # <<>> /\ ret.op = "add_knowledge"

\* ---- the claims ----

\* C1: soundness. After any sequence of truthful add_knowledge calls on
\* non-mine cells, every cell of mines is a real mine and no cell of safes is.
C1_Sound == mines \subseteq board /\ safes \cap board = {}

C1_Witness == Returned /\ mines # {} /\ safes \ moves_made # {}

\* C2: safes and mines are disjoint in every state truthful add_knowledge
\* calls reach, repeated calls on one cell included.
C2_Disjoint == safes \cap mines = {}

\* a cell was observed twice, and both sets hold inferred cells
C2_Witness ==
    /\ Returned
    /\ \E a, b \in DOMAIN calls : a # b /\ calls[a][1] = calls[b][1]
    /\ mines # {}
    /\ Cardinality(safes) > 1

C4_ZeroCountNeighboursSafe ==
    (Returned /\ LastCount = 0) =>
        (Neighbours(LastCell, height, width) \ step3.mines) \subseteq safes

\* the call found sentences in the knowledge base and made a neighbour safe
\* that no earlier call had
C4_Witness ==
    /\ Returned
    /\ LastCount = 0
    /\ Len(step3.knowledge) > 1
    /\ \E n \in Neighbours(LastCell, height, width) : n \in safes /\ n \notin step3.safes

\* C5: subset law. If, when the inference steps of a call start, the knowledge
\* base holds a Sentence {A,B,C} = 1 and a Sentence {A,B} = 1, in either
\* order, then C is in safes when the call returns.
SubsetLawPairs ==
    {<<i, j>> \in (DOMAIN step3.knowledge) \X (DOMAIN step3.knowledge) :
        /\ Cardinality(step3.knowledge[i].cells) = 3
        /\ step3.knowledge[i].count = 1
        /\ Cardinality(step3.knowledge[j].cells) = 2
        /\ step3.knowledge[j].count = 1
        /\ step3.knowledge[j].cells \subseteq step3.knowledge[i].cells}

C5_SubsetLaw ==
    Returned =>
        \A p \in SubsetLawPairs :
            (step3.knowledge[p[1]].cells \ step3.knowledge[p[2]].cells) \subseteq safes

\* the scenario of C6: a 3x3 board whose only mine is at (0,0)
Scenario3x3 == height = 3 /\ width = 3 /\ board = {<<0, 0>>}

ScenarioCalls == << <<<<1, 1>>, 1>>, <<<<0, 2>>, 0>>, <<<<0, 1>>, 1>> >>

\* C6 as stated: in the scenario, (0,1) is in safes after the second call and
\* (0,0) is in mines after the third.
C6_ScenarioAsStated ==
    (Scenario3x3 /\ Returned) =>
        /\ calls = SubSeq(ScenarioCalls, 1, 2) => <<0, 1>> \in safes
        /\ calls = ScenarioCalls => <<0, 0>> \in mines

\* C6 as amended: in the scenario, (0,1) is in safes after the second call;
\* after the third call the knowledge base holds {(0,0),(1,0)} = 1 and (0,0)
\* is not in mines.
C6_Scenario ==
    (Scenario3x3 /\ Returned) =>
        /\ calls = SubSeq(ScenarioCalls, 1, 2) => <<0, 1>> \in safes
        /\ calls = ScenarioCalls =>
              /\ Sentence({<<0, 0>>, <<1, 0>>}, 1) \in Sentences
              /\ <<0, 0>> \notin mines

C6_Witness == Scenario3x3 /\ Returned /\ calls = ScenarioCalls

\* C7: when add_knowledge returns, the knowledge base is at a fixpoint of both
\* rules: what known_safes() and known_mines() of any Sentence report is in
\* safes and mines, and no non-empty Sentence is a subset of a different one.
C7_Fixpoint ==
    Returned =>
        /\ \A s \in Sentences : known_safes(s) \subseteq safes
        /\ \A s \in Sentences : known_mines(s) \subseteq mines
        /\ \A i, j \in DOMAIN knowledge :
              ~ /\ knowledge[i] # knowledge[j]
                /\ knowledge[i].cells # {}
                /\ knowledge[i].cells \subseteq knowledge[j].cells

C8_WitnessNone == ret.op = "make_safe_move" /\ ret.val = {} /\ safes # {}

\* C9: make_random_move returns None only if every cell of the board is in
\* moves_made or in mines.
C9_NoneOnlyWhenBoardExhausted ==
    (ret.op = "make_random_move" /\ ~ ret.raised /\ ret.val = {}) =>
        AllCells(height, width) \subseteq (moves_made \cup mines)

\* C10: a cell returned by make_random_move is in bounds, is neither in
\* moves_made nor in mines, and is outside the risk set of possible_mine()
\* whenever some unprobed, unflagged cell is outside it.
C10_RandomMove ==
    (ret.op = "make_random_move" /\ ret.val # {}) =>
        /\ ret.val \subseteq AllCells(height, width)
        /\ ret.val \cap (moves_made \cup mines) = {}
        /\ (AllCells(height, width) \ (moves_made \cup mines \cup possible_mine(AI)) # {})
              => ret.val \cap possible_mine(AI) = {}

\* a cell is returned while the risk set and moves_made are non-empty
C10_Witness ==
    /\ ret.op = "make_random_move"
    /\ ret.val # {}
    /\ possible_mine(AI) # {}
    /\ moves_made # {}

\* C11: make_random_move never ends in an error: when every unprobed cell
\* that is not a known mine is in the risk set it returns one of them, a cell
\* outside moves_made and mines, and it raises nothing.
C11_RandomMoveNeverRaises ==
    ret.op = "make_random_move" =>
        /\ ~ ret.raised
        /\ LET free == AllCells(height, width) \ (moves_made \cup mines)
           IN  (free # {} /\ free \subseteq possible_mine(AI)) =>
                  (ret.val # {} /\ ret.val \subseteq free)

\* C12: MinesweeperAI.mark_mine is idempotent: mark_mine(c) called right after
\* mark_mine(c) leaves mines, safes, moves_made and every Sentence as the first
\* call left them.
C12_MarkMineIdempotent ==
    [][(ret.op = "mark_mine" /\ ret' = ret) => AI' = AI]_vars

\* mark_mine(c) has been repeated on a cell that is no mine of the board and
\* was not found safe, which only the first call can have put in mines and
\* taken out of a Sentence
C12_Witness ==
    /\ ret.op = "mark_mine"
    /\ ret.val \cap (board \cup safes) = {}
    /\ AI = pre
    /\ \E k \in DOMAIN knowledge :
          ret.val \subseteq (step3.knowledge[k].cells \ knowledge[k].cells)

\* C13: an add_knowledge call on a cell already in moves_made, with the same
\* truthful count and right after an add_knowledge call, changes neither safes,
\* mines, moves_made nor the collection of Sentences.
C13_RedundantCallNoOp ==
    (Returned /\ Len(calls) >= 2 /\ LastCell \in pre.moves_made) =>
        /\ safes = pre.safes
        /\ mines = pre.mines
        /\ moves_made = pre.moves_made
        /\ Sentences = {pre.knowledge[k] : k \in DOMAIN pre.knowledge}

\* the Sentence a method of class Sentence was called on, and what it is now
SentenceBefore == pre.knowledge[1]

SentenceAfter == knowledge[1]

\* C14: Sentence.mark_mine(c) on a Sentence that holds c, a one-cell Sentence
\* included, removes c and lowers the count by one; on a Sentence that does
\* not hold c it changes nothing.
C14_SentenceMarkMine ==
    ret.op = "Sentence.mark_mine" =>
        \A c \in ret.val :
            IF c \in SentenceBefore.cells
            THEN /\ SentenceAfter.cells = SentenceBefore.cells \ {c}
                 /\ SentenceAfter.count = SentenceBefore.count - 1
            ELSE SentenceAfter = SentenceBefore

\* C15: Sentence.mark_safe(c) on a Sentence that holds c, a one-cell Sentence
\* included, removes c and keeps the count; on a Sentence that does not hold c
\* it changes nothing.
C15_SentenceMarkSafe ==
    ret.op = "Sentence.mark_safe" =>
        \A c \in ret.val :
            IF c \in SentenceBefore.cells
            THEN /\ SentenceAfter.cells = SentenceBefore.cells \ {c}
                 /\ SentenceAfter.count = SentenceBefore.count
            ELSE SentenceAfter = SentenceBefore

\* C16: known_mines() returns every cell of the Sentence when the count equals
\* the number of cells and there is a cell, and the empty set otherwise;
\* known_safes() returns every cell when the count is 0 and there is a cell,
\* and the empty set otherwise; neither changes the Sentence.
C16_KnownCells ==
    LET n == Cardinality(SentenceBefore.cells)
    IN  /\ ret.op = "known_mines" =>
              /\ ret.val = IF SentenceBefore.count = n /\ n > 0
                           THEN SentenceBefore.cells ELSE {}
              /\ SentenceAfter = SentenceBefore
        /\ ret.op = "known_safes" =>
              /\ ret.val = IF SentenceBefore.count = 0 /\ n > 0
                           THEN SentenceBefore.cells ELSE {}
              /\ SentenceAfter = SentenceBefore

\* known_mines() has reported every cell of a Sentence of several cells
C16_Witness ==
    /\ ret.op = "known_mines"
    /\ Cardinality(ret.val) > 1
    /\ ret.val = SentenceAfter.cells

\* C17: when add_knowledge, mark_mine or mark_safe of MinesweeperAI has
\* returned, no Sentence holds a cell that is in safes or in mines.
C17_NoResolvedCellInSentence ==
    ret.op \in {"add_knowledge", "mark_mine", "mark_safe"} =>
        \A s \in Sentences : s.cells \cap (safes \cup mines) = {}

\* C18: after any sequence of add_knowledge calls the knowledge base never
\* holds two equal Sentences.
C18_NoDuplicateSentence ==
    Returned =>
        \A i, j \in DOMAIN knowledge : knowledge[i] = knowledge[j] => i = j

\* the neighbours of the cell of the latest add_knowledge call
LastNeighbours == Neighbours(LastCell, height, width)

\* C19: the Sentence add_knowledge(cell, count) builds in step 3 has as cells
\* the in-bounds neighbours of cell that are in neither safes nor mines and as
\* count the given count minus the number of neighbours already in mines; it
\* is appended to the knowledge base only when it has a cell.
C19_NewSentence ==
    Returned =>
        LET cells == LastNeighbours \ (pre.safes \cup pre.mines)
            count == LastCount - Cardinality(LastNeighbours \cap pre.mines)
            n == Len(pre.knowledge)
        IN  IF cells # {}
            THEN /\ Len(step3.knowledge) = n + 1
                 /\ step3.knowledge[n + 1] = Sentence(cells, count)
            ELSE Len(step3.knowledge) = n

\* a Sentence was appended for a cell with a neighbour already in mines and
\* another already in safes
C19_Witness ==
    /\ Returned
    /\ LastNeighbours \cap pre.mines # {}
    /\ LastNeighbours \cap pre.safes # {}
    /\ Len(step3.knowledge) > Len(pre.knowledge)

\* nothing was appended: every neighbour was already in safes or in mines
C19_WitnessEmpty ==
    /\ Returned
    /\ LastNeighbours # {}
    /\ LastNeighbours \cap pre.mines # {}
    /\ Len(step3.knowledge) = Len(pre.knowledge)

\* C20: for add_knowledge calls with any counts in 0..8, a Sentence reduced to
\* no cells with a count other than 0 makes add_knowledge signal a failure: the
\* knowledge base never keeps such a Sentence silently.
C20_InconsistencySignalled ==
    (Returned /\ \E s \in Sentences : s.cells = {} /\ s.count # 0) => ret.raised

====
